---- MODULE Spec2Model ----
(***************************************************************************)
(* PDF order form -> CSV conversion (pdf_processing_logic.py).             *)
(*                                                                         *)
(* Text is a sequence of characters.  An ASCII character is the string of  *)
(* that one character; a character outside ASCII is written as its code    *)
(* point, "U+00E4" for a-umlaut.  The empty Python string '' is <<>>.      *)
(***************************************************************************)
EXTENDS Integers, Sequences, FiniteSets, TLC

\* Python's None: a value that is no text (no character is "None").
None == <<"None">>

----------------------------------------------------------------------------
(* Character classes and case mapping of the Python str / re functions used *)

LowerAlpha == <<"a", "b", "c", "d", "e", "f", "g", "h", "i", "j", "k", "l", "m", "n", "o", "p",
        "q", "r", "s", "t", "u", "v", "w", "x", "y", "z">>

UpperAlpha == <<"A", "B", "C", "D", "E", "F", "G", "H", "I", "J", "K", "L", "M", "N", "O", "P",
        "Q", "R", "S", "T", "U", "V", "W", "X", "Y", "Z">>

AsciiDigit == {"0", "1", "2", "3", "4", "5", "6", "7", "8", "9"}

\* The characters outside ASCII that the inputs of this model use:
\* a-, o-, u-umlaut (small, capital), sharp s (small, capital), e-acute (small,
\* capital), SUPERSCRIPT TWO, FULLWIDTH DIGIT ONE, ARABIC-INDIC DIGIT THREE,
\* NO-BREAK SPACE, EM SPACE, EURO SIGN.
NonAscii ==
    {"U+00E4", "U+00F6", "U+00FC", "U+00C4", "U+00D6", "U+00DC", "U+00DF", "U+1E9E",
     "U+00E9", "U+00C9", "U+00B2", "U+FF11", "U+0663", "U+00A0", "U+2003", "U+20AC"}

\* Code points above 255 cannot be encoded in ISO-8859-1.
NotLatin1 == {"U+1E9E", "U+FF11", "U+0663", "U+2003", "U+20AC"}

IndexIn(seq, c) == CHOOSE i \in 1..Len(seq) : seq[i] = c

IsIn(seq, c) == \E i \in 1..Len(seq) : seq[i] = c

\* [A-Za-z]
IsAsciiLetter(c) == IsIn(LowerAlpha, c) \/ IsIn(UpperAlpha, c)

\* re \s, str.isspace, str.strip on str: Unicode white space.
Space == {" ", "\n", "\t", "\r", "U+00A0", "U+2003"}

IsSpace(c) == c \in Space

\* re \d on a str pattern: Unicode decimal digits (category Nd).
Decimal == AsciiDigit \cup {"U+FF11", "U+0663"}

IsDecimal(c) == c \in Decimal

\* str.isdigit of one character: decimal digits and digit-like characters.
IsDigitChar(c) == IsDecimal(c) \/ c = "U+00B2"

\* str.upper of one character (sharp s becomes two characters).
upper_char(c) ==
    CASE IsIn(LowerAlpha, c) -> <<UpperAlpha[IndexIn(LowerAlpha, c)]>>
      [] c = "U+00E4" -> <<"U+00C4">>
      [] c = "U+00F6" -> <<"U+00D6">>
      [] c = "U+00FC" -> <<"U+00DC">>
      [] c = "U+00E9" -> <<"U+00C9">>
      [] c = "U+00DF" -> <<"S", "S">>
      [] OTHER -> <<c>>

\* The case folding re.IGNORECASE compares characters under.
fold_char(c) ==
    CASE IsIn(UpperAlpha, c) -> LowerAlpha[IndexIn(UpperAlpha, c)]
      [] c = "U+00C4" -> "U+00E4"
      [] c = "U+00D6" -> "U+00F6"
      [] c = "U+00DC" -> "U+00FC"
      [] c = "U+00C9" -> "U+00E9"
      [] c = "U+1E9E" -> "U+00DF"
      [] OTHER -> c

RECURSIVE Flatten(_)
Flatten(ss) == IF ss = <<>> THEN <<>> ELSE Head(ss) \o Flatten(Tail(ss))

\* str.upper
upper(s) == Flatten([i \in 1..Len(s) |-> upper_char(s[i])])

\* The first index j >= i whose character is not in the class (Len(s)+1 if none):
\* where a greedy  X*  that starts at i ends.
Span(s, i, class) ==
    CHOOSE j \in i..(Len(s) + 1) :
        /\ \A k \in i..(j - 1) : s[k] \in class
        /\ j = Len(s) + 1 \/ s[j] \notin class

\* str.strip
strip(s) ==
    LET first == Span(s, 1, Space)
        kept == {j \in 1..Len(s) : ~IsSpace(s[j])}
    IN  IF kept = {} THEN <<>>
        ELSE SubSeq(s, first, CHOOSE j \in kept : \A k \in kept : k <= j)

\* A literal of a pattern matches s at index i.
MatchAt(s, i, lit) ==
    /\ i >= 1
    /\ i + Len(lit) - 1 <= Len(s)
    /\ \A k \in 1..Len(lit) : s[i + k - 1] = lit[k]

\* The same under re.IGNORECASE.
MatchAtI(s, i, lit) ==
    /\ i >= 1
    /\ i + Len(lit) - 1 <= Len(s)
    /\ \A k \in 1..Len(lit) : fold_char(s[i + k - 1]) = fold_char(lit[k])

\* lit in s
Contains(s, lit) == \E i \in 1..(Len(s) - Len(lit) + 1) : MatchAt(s, i, lit)

Min(S) == CHOOSE x \in S : \A y \in S : x <= y

Max(S) == CHOOSE x \in S : \A y \in S : y <= x

----------------------------------------------------------------------------
(* clean_text *)

\* text.replace(...) of the German special characters, one character at a time.
replace_german(c) ==
    CASE c = "U+00C4" -> <<"A", "E">>
      [] c = "U+00D6" -> <<"O", "E">>
      [] c = "U+00DC" -> <<"U", "E">>
      [] c = "U+00E4" -> <<"a", "e">>
      [] c = "U+00F6" -> <<"o", "e">>
      [] c = "U+00FC" -> <<"u", "e">>
      [] c = "U+1E9E" -> <<"S", "S">>
      [] c = "U+00DF" -> <<"s", "s">>
      [] OTHER -> <<c>>

\* unicodedata.normalize('NFKD', c).encode('ascii', 'ignore'): the ASCII
\* characters of the compatibility decomposition; a character without any is
\* dropped.
nfkd_ascii(c) ==
    CASE c \notin NonAscii -> <<c>>
      [] c = "U+00E9" -> <<"e">>
      [] c = "U+00C9" -> <<"E">>
      [] c = "U+00B2" -> <<"2">>
      [] c = "U+FF11" -> <<"1">>
      [] c = "U+00A0" -> <<" ">>
      [] c = "U+2003" -> <<" ">>
      [] OTHER -> <<>>

\* re.sub(r'\s+', ' ', text)
RECURSIVE collapse_whitespace(_)
collapse_whitespace(s) ==
    IF s = <<>> THEN <<>>
    ELSE IF IsSpace(Head(s))
         THEN <<" ">> \o collapse_whitespace(SubSeq(s, Span(s, 1, Space), Len(s)))
         ELSE <<Head(s)>> \o collapse_whitespace(Tail(s))

clean_text(text) ==
    IF text = None THEN <<>>
    ELSE LET replaced == Flatten([i \in 1..Len(text) |-> replace_german(text[i])])
             ascii == Flatten([i \in 1..Len(replaced) |-> nfkd_ascii(replaced[i])])
         IN  strip(collapse_whitespace(ascii))

----------------------------------------------------------------------------
(* extract_info_from_text *)

\* Keyword of the delivery address -> market password, in definition order (a
\* dict iterates in insertion order).
MARKET_PASSWORDS ==
    << [key |-> <<"S", "C", "H", "A", "E", "F", "E", "R", "W", "I", "E", "S", "E">>,
        password |-> <<"A", "l", "l", "e", "e">>],
       [key |-> <<"T", "H", "E", "R", "E", "S", "I", "E", "N", "H", "O", "E", "H", "E">>,
        password |-> <<"T", "h", "e", "r", "e", "s", "i", "e">>],
       [key |-> <<"E", "I", "N", "S", "T", "E", "I", "N", "S", "T", "R", "A", "S", "S", "E">>,
        password |-> <<"E", "i", "n", "s", "t", "e", "i", "n">>],
       [key |-> <<"U", "N", "T", "E", "R", "H", "A", "C", "H", "I", "N", "G">>,
        password |-> <<"U", "n", "t", "e", "r", "h", "a", "c", "h", "i", "n", "g">>],
       [key |-> <<"P", "U", "L", "L", "A", "C", "H">>,
        password |-> <<"P", "u", "l", "l", "a", "c", "h">>],
       [key |-> <<"I", "S", "A", "R", "T", "A", "L">>,
        password |-> <<"D", "o", "h", "l", "e", "P", "a", "s", "s", "w", "o", "r", "t", "I", "s",
        "a", "r", "t", "a", "l">>],
       [key |-> <<"M", "A", "R", "T", "I", "N", "S", "R", "I", "E", "D">>,
        password |-> <<"D", "o", "h", "l", "e", "P", "a", "s", "s", "w", "o", "r", "t", "M", "a",
        "r", "t", "i", "n", "s", "r", "i", "e", "d">>] >>

\* (\d{2}\.\d{2}\.\d{4}) matches s at index i.
MatchDate(s, i) ==
    /\ i + 9 <= Len(s)
    /\ \A k \in {0, 1, 3, 4, 6, 7, 8, 9} : IsDecimal(s[i + k])
    /\ s[i + 2] = "."
    /\ s[i + 5] = "."

\* The literal texts the patterns of extract_info_from_text start with.
BESTELL_NR_LABEL == <<"B", "e", "s", "t", "e", "l", "l", "-", "N", "r", ".", ":">>

ADDRESS_LABEL == <<"L", "I", "E", "F", "E", "R", "A", "N", "S", "C", "H", "R", "I", "F", "T">>

AEZ_HAUS_LABEL == <<"A", "E", "Z", " ", "H", "a", "u", "s", " ">>

BESTELLUNG_NR_LABEL == <<"B", "e", "s", "t", "e", "l", "l", "u", "n", "g", " ", "N", "r">>

\* Where the group of  label\s*(...)  starts when the label matches at p:
\* after the label and the white space behind it (\s* is greedy; the groups
\* start with a digit, so giving white space back never helps).
after_label(s, label, p) == Span(s, p + Len(label), Space)

\* re.search(label + r"\s*(\d{2}\.\d{2}\.\d{4})", s): group 1 of the leftmost
\* match, '' without a match.
search_date(s, label) ==
    LET hits == {p \in 1..Len(s) : MatchAt(s, p, label) /\ MatchDate(s, after_label(s, label, p))}
    IN  IF hits = {} THEN <<>>
        ELSE SubSeq(s, after_label(s, label, Min(hits)), after_label(s, label, Min(hits)) + 9)

\* (\d+) from index a on.
group_digits(s, a) == SubSeq(s, a, Span(s, a, Decimal) - 1)

\* re.search(label + r"\s*(\d+)", s): group 1 of the leftmost match, '' without.
search_number(s, label) ==
    LET hits == {p \in 1..Len(s) :
                    /\ MatchAt(s, p, label)
                    /\ after_label(s, label, p) <= Len(s)
                    /\ IsDecimal(s[after_label(s, label, p)])}
    IN  IF hits = {} THEN <<>> ELSE group_digits(s, after_label(s, label, Min(hits)))

\* [A-Za-z0-9\s\/]
OrderNoChar ==
    {LowerAlpha[k] : k \in 1..Len(LowerAlpha)} \cup {UpperAlpha[k] : k \in 1..Len(UpperAlpha)}
        \cup AsciiDigit \cup Space \cup {"/"}

IsOrderNoChar(c) == c \in OrderNoChar

\* ([A-Za-z0-9\s\/]+) from index a on, stripped.
group_order_no(s, a) == strip(SubSeq(s, a, Span(s, a, OrderNoChar) - 1))

\* re.search(r"Bestell-Nr\.:\s*([A-Za-z0-9\s\/]+)", s), then group(1).strip().
\* The class of the group holds \s, so the white space \s* takes and the group
\* together are the run of class characters after the label, and strip() drops
\* the leading white space whichever of the two matched it.
search_bestell_nr(s) ==
    LET hits == {p \in 1..Len(s) :
                    /\ MatchAt(s, p, BESTELL_NR_LABEL)
                    /\ p + 12 <= Len(s)
                    /\ IsOrderNoChar(s[p + 12])}
    IN  IF hits = {} THEN <<>> ELSE group_order_no(s, Min(hits) + 12)

\* $ without re.MULTILINE: the end of the text, or just before its last newline.
AtEnd(s, i) == i = Len(s) + 1 \/ (i = Len(s) /\ s[i] = "\n")

\* (?=\n(?:GLN:|Empf\.:|Ihr Ansprechpartner\/in|RECHNUNGSEMPFÄNGER|$)) holds at
\* index q, under re.IGNORECASE.
address_end(s, q) ==
    /\ q <= Len(s)
    /\ s[q] = "\n"
    /\ \/ MatchAtI(s, q + 1, <<"G", "L", "N", ":">>)
       \/ MatchAtI(s, q + 1, <<"E", "m", "p", "f", ".", ":">>)
       \/ MatchAtI(s, q + 1, <<"I", "h", "r", " ", "A", "n", "s", "p", "r", "e", "c", "h", "p",
        "a", "r", "t", "n", "e", "r", "/", "i", "n">>)
       \/ MatchAtI(s, q + 1, <<"R", "E", "C", "H", "N", "U", "N", "G", "S", "E", "M", "P", "F",
        "U+00C4", "N", "G", "E", "R">>)
       \/ AtEnd(s, q + 1)

\* The indices from a on the lookahead holds at.
address_ends(s, a) == {q \in a..Len(s) : address_end(s, q)}

\* Group 1 when the label ends before a and the white space after it before w.
\* \s* is greedy and the group lazy: the group runs from the end of the white
\* space to the first index the lookahead holds at; when it holds only inside
\* that white space, \s* gives back down to the last such index and the group
\* is empty.
address_group(s, a, w) ==
    LET after == {q \in address_ends(s, a) : q >= w}
    IN  IF after = {} THEN <<>> ELSE SubSeq(s, w, Min(after) - 1)

\* re.search(r'LIEFERANSCHRIFT\s*([\s\S]*?)(?=...)', s, re.IGNORECASE): a record
\* of whether it matched and group 1.
search_address(s) ==
    LET hits == {p \in 1..Len(s) :
                    MatchAtI(s, p, ADDRESS_LABEL) /\ address_ends(s, p + 15) # {}}
    IN  IF hits = {} THEN [matched |-> FALSE, group |-> <<>>]
        ELSE [matched |-> TRUE,
              group |-> address_group(s, Min(hits) + 15, Span(s, Min(hits) + 15, Space))]

\* The lookup taking the last key of the table the block holds, not the first:
\* a loop without its break.
resolve_password_last(delivery_address_block) ==
    LET found == {i \in 1..Len(MARKET_PASSWORDS) :
                     Contains(delivery_address_block, MARKET_PASSWORDS[i].key)}
    IN  IF found = {} THEN <<>> ELSE MARKET_PASSWORDS[Max(found)].password

\* for key_fragment, password_value in MARKET_PASSWORDS.items():
\*     if key_fragment in delivery_address_block: ...; break
resolve_password(delivery_address_block) ==
    LET found == {i \in 1..Len(MARKET_PASSWORDS) :
                     Contains(delivery_address_block, MARKET_PASSWORDS[i].key)}
    IN  IF found = {} THEN <<>> ELSE MARKET_PASSWORDS[Min(found)].password

\* if match_address: delivery_address_block = clean_text(...).upper()
block_of_match(match_address) ==
    IF match_address.matched THEN upper(clean_text(match_address.group)) ELSE <<>>

\* The address block the market is looked up in: '' without a match of the
\* address pattern, else group 1 cleaned and upper-cased.
delivery_address_block_of(text_content) == block_of_match(search_address(text_content))

\* [A-Za-zäöüÄÖÜ\s-]
IsMarketNameChar(c) ==
    \/ IsAsciiLetter(c)
    \/ c \in {"U+00E4", "U+00F6", "U+00FC", "U+00C4", "U+00D6", "U+00DC"}
    \/ IsSpace(c)
    \/ c = "-"

\* (?=\s+GLN:|\n|$) holds at index e.
market_name_end(s, e) ==
    \/ LET j == Span(s, e, Space) IN j > e /\ MatchAt(s, j, <<"G", "L", "N", ":">>)
    \/ (e <= Len(s) /\ s[e] = "\n")
    \/ AtEnd(s, e)

\* Where \d+ ends when "AEZ Haus " matches at p: \d+ takes every digit (the
\* character after fewer digits is a digit, which neither \s* nor the group
\* matches).
name_digits_end(s, p) == Span(s, p + 9, Decimal)

\* The groups <<w, e>>, s[w .. e-1], the pattern can match after the digits
\* that end before d: \s* ends before w, the group is 1 or more class
\* characters and the lookahead holds at e.
name_groups(s, d) ==
    {we \in (d..Span(s, d, Space)) \X (1..(Len(s) + 1)) :
        /\ we[2] > we[1]
        /\ \A k \in we[1]..(we[2] - 1) : IsMarketNameChar(s[k])
        /\ market_name_end(s, we[2])}

\* \s* is greedy and gives back from its longest match down: the group starts
\* at the greatest w; it is lazy and ends at the least e for it.
name_of_groups(s, g, w) == SubSeq(s, w, Min({we[2] : we \in {x \in g : x[1] = w}}) - 1)

first_name_of_groups(s, g) == name_of_groups(s, g, Max({we[1] : we \in g}))

\* re.search(r"AEZ Haus \d+\s*([A-Za-zäöüÄÖÜ\s-]+?)(?=\s+GLN:|\n|$)", s): whether
\* it matched and group 1.
search_market_name(s) ==
    LET hits == {p \in 1..Len(s) :
                    /\ MatchAt(s, p, AEZ_HAUS_LABEL)
                    /\ name_digits_end(s, p) > p + 9
                    /\ name_groups(s, name_digits_end(s, p)) # {}}
    IN  IF hits = {} THEN [matched |-> FALSE, group |-> <<>>]
        ELSE [matched |-> TRUE,
              group |-> first_name_of_groups(s, name_groups(s, name_digits_end(s, Min(hits))))]

\* re.search(r'(\S+)$', s).group(1) of a cleaned (stripped, single-spaced) text:
\* its last word, '' when the text is empty.
last_word(s) ==
    LET spaces == {i \in 1..Len(s) : IsSpace(s[i])}
    IN  IF spaces = {} THEN s ELSE SubSeq(s, Max(spaces) + 1, Len(s))

\* extracted_keyword in MARKET_PASSWORDS / MARKET_PASSWORDS[extracted_keyword]
lookup_password(extracted_keyword) ==
    LET found == {i \in 1..Len(MARKET_PASSWORDS) : MARKET_PASSWORDS[i].key = extracted_keyword}
    IN  IF found = {} THEN <<>> ELSE MARKET_PASSWORDS[Min(found)].password

\* The values the EDEKA branch returns, and its local delivery_address_block,
\* given the match of the first order number pattern and the address block.
edeka_info(text_content, primary, address_block) ==
    [bestellnummer |-> IF primary # <<>> THEN primary ELSE search_bestell_nr(text_content),
     bestelldatum |-> search_date(text_content, <<"B", "e", "s", "t", "e", "l", "l", "d", "a", "t",
        "u", "m", ":">>),
     lieferdatum |-> search_date(text_content, <<"L", "i", "e", "f", "e", "r", "t", "e", "r", "m",
        "i", "n", ":">>),
     delivery_address_block |-> address_block,
     markt_kennwort |-> resolve_password(address_block),
     markt_name |-> <<>>]

\* The EDEKA branch (not is_dohle).
extract_info_edeka(text_content) ==
    edeka_info(text_content, search_number(text_content, <<"B", "e", "s", "t", "e", "l", "l", "n",
        "u", "m", "m", "e", "r", ":">>),
               delivery_address_block_of(text_content))

\* Where (\d+) starts when "Bestellung Nr" ends before a: the optional '.' is
\* taken when it is there (without it the digits would have to start at the
\* '.'), then the white space.
after_nr(s, a) == Span(s, IF a <= Len(s) /\ s[a] = "." THEN a + 1 ELSE a, Space)

\* re.search(r"Bestellung Nr\.?\s*(\d+)", s)
search_bestellung_nr(s) ==
    LET hits == {p \in 1..Len(s) :
                    /\ MatchAt(s, p, BESTELLUNG_NR_LABEL)
                    /\ after_nr(s, p + 13) <= Len(s)
                    /\ IsDecimal(s[after_nr(s, p + 13)])}
    IN  IF hits = {} THEN <<>> ELSE group_digits(s, after_nr(s, Min(hits) + 13))

\* clean_text(markt_name_raw).upper(), its last word looked up in
\* MARKET_PASSWORDS ('' when there is no word).
dohle_password(extracted_keyword) ==
    IF extracted_keyword # <<>> THEN lookup_password(extracted_keyword) ELSE <<>>

\* The values the Dohle HIT (AEZ) branch returns, given the match of the
\* market name pattern.  re.match(r"(\d+)\s*(.*)", markt_name_raw) never
\* matches, markt_name_raw being made of name characters only, so markt_name is
\* the fallback "AEZ Haus " + markt_name_raw.  The branch has no
\* delivery_address_block.
dohle_info(text_content, match) ==
    [bestellnummer |-> search_bestellung_nr(text_content),
     bestelldatum |-> search_date(text_content, <<"D", "a", "t", "u", "m", ":">>),
     lieferdatum |-> search_date(text_content, <<"L", "i", "e", "f", "e", "r", "t", "e", "r", "m",
        "i", "n", ":">>),
     delivery_address_block |-> <<>>,
     markt_kennwort |-> IF match.matched
                        THEN dohle_password(last_word(upper(clean_text(strip(match.group)))))
                        ELSE <<>>,
     markt_name |-> IF match.matched THEN <<"A", "E", "Z", " ", "H", "a", "u", "s", " ">> \o strip(match.group) ELSE <<>>]

\* The Dohle HIT (AEZ) branch.
extract_info_dohle(text_content) == dohle_info(text_content, search_market_name(text_content))

extract_info_from_text(text_content, is_dohle) ==
    IF is_dohle THEN extract_info_dohle(text_content) ELSE extract_info_edeka(text_content)

----------------------------------------------------------------------------
(* float(...) and str(float)                                                *)
(*                                                                          *)
(* A float is a record: kind "nan", "inf" or "finite", its sign, and for a  *)
(* finite value the decimal m * 10^e with m not a multiple of 10 (m = 0,    *)
(* e = 0 for zero).  The decimal is exact for the texts of up to 9          *)
(* significant digits this model reads, which a double holds and            *)
(* str(float) gives back digit for digit.                                   *)

Digits == <<"0", "1", "2", "3", "4", "5", "6", "7", "8", "9">>

digit_value(c) == IndexIn(Digits, c) - 1

RECURSIVE int_of(_)
int_of(ds) == IF ds = <<>> THEN 0 ELSE 10 * int_of(SubSeq(ds, 1, Len(ds) - 1)) + digit_value(ds[Len(ds)])

RECURSIVE digits_of(_)
digits_of(n) == IF n < 10 THEN <<Digits[n + 1]>> ELSE digits_of(n \div 10) \o <<Digits[(n % 10) + 1]>>

RECURSIVE Zeros(_)
Zeros(n) == IF n <= 0 THEN <<>> ELSE <<"0">> \o Zeros(n - 1)

\* str.replace(old, new) for one-character old and new.
replace_char(s, old, new) == [i \in 1..Len(s) |-> IF s[i] = old THEN new ELSE s[i]]

\* str.lower of ASCII text.
lower_ascii(s) ==
    [i \in 1..Len(s) |-> IF IsIn(UpperAlpha, s[i]) THEN LowerAlpha[IndexIn(UpperAlpha, s[i])] ELSE s[i]]

\* digitpart of the float grammar: digits, single underscores between digits.
IsDigitPart(s) ==
    /\ s # <<>>
    /\ \A i \in 1..Len(s) : s[i] \in AsciiDigit \/ s[i] = "_"
    /\ s[1] # "_"
    /\ s[Len(s)] # "_"
    /\ \A i \in 1..(Len(s) - 1) : ~(s[i] = "_" /\ s[i + 1] = "_")

without_underscores(s) == SelectSeq(s, LAMBDA c : c # "_")

\* m * 10^e with the trailing zeros of m moved into e.
RECURSIVE normal_decimal(_, _)
normal_decimal(m, e) ==
    IF m = 0 THEN [m |-> 0, e |-> 0]
    ELSE IF m % 10 = 0 THEN normal_decimal(m \div 10, e + 1)
    ELSE [m |-> m, e |-> e]

ValueError == [ok |-> FALSE]

\* The range of a double: a decimal point position above 309 overflows to inf,
\* one below -323 underflows to 0.  d is the normal decimal.
finite_normal(neg, d) ==
    IF d.m # 0 /\ Len(digits_of(d.m)) + d.e > 309
        THEN [ok |-> TRUE, kind |-> "inf", neg |-> neg, m |-> 0, e |-> 0]
    ELSE IF d.m = 0 \/ Len(digits_of(d.m)) + d.e < -323
        THEN [ok |-> TRUE, kind |-> "finite", neg |-> neg, m |-> 0, e |-> 0]
    ELSE [ok |-> TRUE, kind |-> "finite", neg |-> neg, m |-> d.m, e |-> d.e]

finite_float(neg, m, e) == finite_normal(neg, normal_decimal(m, e))

\* The number after sign and exponent are split off: digits, at most one point
\* and at least one digit.
float_digits(neg, int_part, frac_part, exp_value) ==
    IF /\ int_part = <<>> \/ IsDigitPart(int_part)
       /\ frac_part = <<>> \/ IsDigitPart(frac_part)
       /\ int_part # <<>> \/ frac_part # <<>>
    THEN finite_float(neg,
                      int_of(without_underscores(int_part) \o without_underscores(frac_part)),
                      exp_value - Len(without_underscores(frac_part)))
    ELSE ValueError

\* The mantissa is split at its first point (dot_at: where its points are).
float_mantissa(neg, mantissa, dot_at, exp_value) ==
    IF dot_at = {}
    THEN float_digits(neg, mantissa, <<>>, exp_value)
    ELSE float_digits(neg, SubSeq(mantissa, 1, Min(dot_at) - 1),
                      SubSeq(mantissa, Min(dot_at) + 1, Len(mantissa)), exp_value)

\* The exponent after its e: an optional sign and a digitpart.
float_exponent(neg, mantissa, exponent) ==
    IF exponent = <<>> \/ ~IsDigitPart(IF exponent[1] \in {"+", "-"} THEN Tail(exponent) ELSE exponent)
    THEN ValueError
    ELSE float_mantissa(neg, mantissa, {i \in 1..Len(mantissa) : mantissa[i] = "."},
                        IF exponent[1] = "-"
                        THEN 0 - int_of(without_underscores(Tail(exponent)))
                        ELSE IF exponent[1] = "+"
                             THEN int_of(without_underscores(Tail(exponent)))
                             ELSE int_of(without_underscores(exponent)))

\* The text after the sign (e_at: where it holds an e or E).
float_body(neg, body, e_at) ==
    IF lower_ascii(body) = <<"i", "n", "f">> \/ lower_ascii(body) = <<"i", "n", "f", "i", "n", "i",
        "t", "y">>
        THEN [ok |-> TRUE, kind |-> "inf", neg |-> neg, m |-> 0, e |-> 0]
    ELSE IF lower_ascii(body) = <<"n", "a", "n">>
        THEN [ok |-> TRUE, kind |-> "nan", neg |-> neg, m |-> 0, e |-> 0]
    ELSE IF e_at = {}
        THEN float_mantissa(neg, body, {i \in 1..Len(body) : body[i] = "."}, 0)
    ELSE float_exponent(neg, SubSeq(body, 1, Min(e_at) - 1), SubSeq(body, Min(e_at) + 1, Len(body)))

\* The stripped text: an optional sign, then the body.
float_signed(s, body) ==
    float_body(s # <<>> /\ s[1] = "-", body, {i \in 1..Len(body) : body[i] \in {"e", "E"}})

float_stripped(s) ==
    float_signed(s, IF s # <<>> /\ s[1] \in {"+", "-"} THEN Tail(s) ELSE s)

\* float(s) of an ASCII text: [sign] (inf | infinity | nan | number), white
\* space around it ignored, ValueError otherwise.
float(text) == float_stripped(strip(text))

\* bestellmenge > 0
greater_than_zero(x) ==
    \/ x.kind = "inf" /\ ~x.neg
    \/ x.kind = "finite" /\ ~x.neg /\ x.m > 0

\* The exponent of repr: e, sign, at least two digits.
exp_text(exp10) ==
    <<"e", IF exp10 < 0 THEN "-" ELSE "+">>
        \o (IF exp10 > -10 /\ exp10 < 10 THEN <<"0">> ELSE <<>>)
        \o digits_of(IF exp10 < 0 THEN 0 - exp10 ELSE exp10)

\* The digits ds of a finite value, not zero, with the decimal point after the
\* first decpt of them.
repr_digits(ds, decpt) ==
    IF decpt <= -4 \/ decpt > 16
        THEN <<ds[1]>> \o (IF Len(ds) > 1 THEN <<".">> \o Tail(ds) ELSE <<>>) \o exp_text(decpt - 1)
    ELSE IF decpt <= 0 THEN <<"0", ".">> \o Zeros(0 - decpt) \o ds
    ELSE IF decpt < Len(ds) THEN SubSeq(ds, 1, decpt) \o <<".">> \o SubSeq(ds, decpt + 1, Len(ds))
    ELSE ds \o Zeros(decpt - Len(ds)) \o <<".", "0">>

\* str(x): repr of a float.  decpt is the position of the decimal point after
\* the first digit of m; repr writes an exponent when decpt <= -4 or
\* decpt > 16, and at least one digit after the point otherwise.
str_float(x) ==
    (IF x.neg /\ x.kind # "nan" THEN <<"-">> ELSE <<>>)
        \o (IF x.kind = "nan" THEN <<"n", "a", "n">>
            ELSE IF x.kind = "inf" THEN <<"i", "n", "f">>
            ELSE IF x.m = 0 THEN <<"0", ".", "0">>
            ELSE repr_digits(digits_of(x.m), Len(digits_of(x.m)) + x.e))

----------------------------------------------------------------------------
(* Paths *)

\* The directories app.py creates under the batch's temporary root.
temp_pdf_input_dir == <<"t", "m", "p", "/", "i", "n", "p", "u", "t", "_", "p", "d", "f", "s">>

temp_csv_output_dir == <<"t", "m", "p", "/", "t", "e", "m", "p", "_", "c", "s", "v", "s">>

final_csv_download_dir == <<"t", "m", "p", "/", "f", "i", "n", "a", "l", "_", "c", "s", "v", "s">>

\* os.path.join(directory, name) of a relative name.
path_join(directory, name) == directory \o <<"/">> \o name

\* os.path.basename
basename(path) ==
    LET slashes == {i \in 1..Len(path) : path[i] = "/"}
    IN  IF slashes = {} THEN path ELSE SubSeq(path, Max(slashes) + 1, Len(path))

\* os.path.dirname
dirname(path) ==
    LET slashes == {i \in 1..Len(path) : path[i] = "/"}
    IN  IF slashes = {} THEN <<>> ELSE SubSeq(path, 1, Max(slashes) - 1)

\* os.path.splitext(name)[0] of a name without directory: the name up to its
\* last dot; dots that lead the name do not start an extension.
splitext_root(name) ==
    LET lead == Span(name, 1, {"."})
        dots == {i \in (lead + 1)..Len(name) : name[i] = "."}
    IN  IF dots = {} THEN name ELSE SubSeq(name, 1, Max(dots) - 1)

\* is_dohle = "DOHLEHIT" in file_basename_upper or "AEZ" in file_basename_upper
is_dohle_file(pdf_path) ==
    LET file_basename_upper == upper(basename(pdf_path))
    IN  \/ Contains(file_basename_upper, <<"D", "O", "H", "L", "E", "H", "I", "T">>)
        \/ Contains(file_basename_upper, <<"A", "E", "Z">>)

\* output_filename = os.path.splitext(os.path.basename(pdf_input_path))[0] + ".csv"
output_filename(pdf_path) == splitext_root(basename(pdf_path)) \o <<".", "c", "s", "v">>

temp_csv_path_of(pdf_path) == path_join(temp_csv_output_dir, output_filename(pdf_path))

final_csv_path_of(pdf_path) == path_join(final_csv_download_dir, output_filename(pdf_path))

\* The credential check left out.
missing_credential_never(dohle, kennwort) == FALSE

\* if not is_dohle and not markt_kennwort: ... return None
missing_credential(dohle, kennwort) == ~dohle /\ kennwort = <<>>

----------------------------------------------------------------------------
(* Table geometry *)

\* X-coordinates of the column splits, in hundredths of a point.
EDEKA_VERTICAL_LINES == <<1134, 9921, 19275, 27212, 33458, 41102, 62361, 72282>>

DOHLE_VERTICAL_LINES ==
    <<2835, 6094, 21674, 25644, 27911, 32862, 39087, 43234, 46298, 49363, 52729, 56693>>

\* vertical_lines_to_use
vertical_lines(dohle) == IF dohle THEN DOHLE_VERTICAL_LINES ELSE EDEKA_VERTICAL_LINES

\* extract_tables with "vertical_strategy": "explicit" gives a row one cell
\* between each two neighbouring lines.
columns_of(dohle) == Len(vertical_lines(dohle)) - 1

\* The 0-based indices the row loop reads the article number and the quantity at.
artnr_index(dohle) == IF dohle THEN 4 ELSE 0

menge_index(dohle) == IF dohle THEN 7 ELSE 1

\* row[k] if len(row) > k else ""
cell_or_empty(row, k) == IF Len(row) > k THEN row[k + 1] ELSE <<>>

\* table_data_raw.append([clean_text(cell) for cell in row])
clean_row(row) == [k \in 1..Len(row) |-> clean_text(row[k])]

----------------------------------------------------------------------------
(* The row loop of process_single_pdf *)

\* " ".join(row)
RECURSIVE join_cells(_)
join_cells(row) ==
    IF row = <<>> THEN <<>>
    ELSE IF Len(row) = 1 THEN row[1]
    ELSE row[1] \o <<" ">> \o join_cells(Tail(row))

\* not any(cell.strip() for cell in row)
is_empty_row(row) == \A k \in 1..Len(row) : strip(row[k]) = <<>>

\* all(cell.strip().startswith('_') for cell in row if cell.strip())
is_delimiter_row(row) ==
    \A k \in 1..Len(row) : strip(row[k]) # <<>> => strip(row[k])[1] = "_"

\* "PLAN MHD" in row_joined_upper or "SUMME" in ... or "GESAMT" in ...
is_summary_row(row) ==
    LET row_joined_upper == upper(join_cells(row))
    IN  \/ Contains(row_joined_upper, <<"P", "L", "A", "N", " ", "M", "H", "D">>)
        \/ Contains(row_joined_upper, <<"S", "U", "M", "M", "E">>)
        \/ Contains(row_joined_upper, <<"G", "E", "S", "A", "M", "T">>)

\* A test of the article number that only asks for some text.
isdigit_nonempty(s) == s # <<>>

\* str.isdigit: not empty, and every character a digit.
isdigit(s) == s # <<>> /\ \A k \in 1..Len(s) : IsDigitChar(s[k])

\* float(bestellmenge_str.replace(',', '.').strip())
parse_bestellmenge(bestellmenge_str) == float(strip(replace_char(bestellmenge_str, ",", ".")))

\* The acceptance test without the two header fields.
item_accepted_without_header(datum, nummer, current_lief_artnr, bestellmenge) ==
    /\ current_lief_artnr # <<>>
    /\ greater_than_zero(bestellmenge)

\* if bestelldatum and bestellnummer and current_lief_artnr and bestellmenge > 0
item_accepted(datum, nummer, current_lief_artnr, bestellmenge) ==
    /\ datum # <<>>
    /\ nummer # <<>>
    /\ current_lief_artnr # <<>>
    /\ greater_than_zero(bestellmenge)

\* The article check, the quantity conversion and the acceptance test on the
\* two cells read: the items to append (none or one).
accept_item(lief_artnr_str, bestellmenge, datum, nummer) ==
    IF ~isdigit(strip(lief_artnr_str)) THEN <<>>
    ELSE IF ~bestellmenge.ok THEN <<>>
    ELSE IF item_accepted(datum, nummer, strip(lief_artnr_str), bestellmenge)
         THEN << [artikelnummer |-> strip(lief_artnr_str), bestellmenge |-> bestellmenge] >>
    ELSE <<>>

\* The two cells read at the columns of the EDEKA variant whatever the file.
parse_item_edeka_columns(row, dohle, datum, nummer) ==
    accept_item(cell_or_empty(row, 0), parse_bestellmenge(cell_or_empty(row, 1)), datum, nummer)

\* A row after the section and summary filters.
parse_item(row, dohle, datum, nummer) ==
    accept_item(cell_or_empty(row, artnr_index(dohle)),
                parse_bestellmenge(cell_or_empty(row, menge_index(dohle))),
                datum, nummer)

\* The iteration without the wait for the line under the table head.
process_row_always_in_data(row, dohle, in_data, datum, nummer) ==
    IF is_empty_row(row) THEN [in_data_section |-> in_data, items |-> <<>>]
    ELSE IF ~dohle /\ is_delimiter_row(row) THEN [in_data_section |-> TRUE, items |-> <<>>]
    ELSE IF is_summary_row(row) THEN [in_data_section |-> in_data, items |-> <<>>]
    ELSE [in_data_section |-> in_data, items |-> parse_item(row, dohle, datum, nummer)]

\* The iteration with the section logic applied to both variants.
process_row_any_variant(row, dohle, in_data, datum, nummer) ==
    IF is_empty_row(row) THEN [in_data_section |-> in_data, items |-> <<>>]
    ELSE IF is_delimiter_row(row) THEN [in_data_section |-> TRUE, items |-> <<>>]
    ELSE IF in_data # TRUE THEN [in_data_section |-> in_data, items |-> <<>>]
    ELSE IF is_summary_row(row) THEN [in_data_section |-> in_data, items |-> <<>>]
    ELSE [in_data_section |-> in_data, items |-> parse_item(row, dohle, datum, nummer)]

\* One iteration of the loop over table_data_raw: the value of in_data_section
\* after it (None for a Dohle file, which never assigns it) and the items it
\* appends to processed_article_data.
process_row(row, dohle, in_data, datum, nummer) ==
    IF is_empty_row(row) THEN [in_data_section |-> in_data, items |-> <<>>]
    ELSE IF ~dohle /\ is_delimiter_row(row) THEN [in_data_section |-> TRUE, items |-> <<>>]
    ELSE IF ~dohle /\ in_data # TRUE THEN [in_data_section |-> in_data, items |-> <<>>]
    ELSE IF is_summary_row(row) THEN [in_data_section |-> in_data, items |-> <<>>]
    ELSE [in_data_section |-> in_data, items |-> parse_item(row, dohle, datum, nummer)]

\* The check for an empty table left out.
no_table_found_never(rows) == FALSE

\* if not table_data_raw: ... return None
no_table_found(rows) == rows = <<>>

\* if not processed_article_data: ... return None
no_valid_items(items) == items = <<>>

----------------------------------------------------------------------------
(* CSV generation *)

\* [''] * 15
empty_csv_row == [k \in 1..15 |-> <<>>]

\* row = [''] * 15; row[index] = value   (index 0-based)
csv_row_with(index, value) == [empty_csv_row EXCEPT ![index + 1] = value]

\* The quantity written as str gives it, with its period.
format_bestellmenge_period(bestellmenge) == str_float(bestellmenge)

\* str(item["bestellmenge"]).replace('.', ',')
format_bestellmenge(bestellmenge) == replace_char(str_float(bestellmenge), ".", ",")

\* row_csv[1] = item["artikelnummer"]; row_csv[4] = str(...).replace('.', ',')
item_csv_row(item) ==
    [empty_csv_row EXCEPT ![2] = item.artikelnummer,
                          ![5] = format_bestellmenge(item.bestellmenge)]

\* The rows the with-block hands to csv_writer.writerow, in order.
csv_rows(kennwort, datum, nummer, liefer, items) ==
    << csv_row_with(14, kennwort),
       empty_csv_row,
       csv_row_with(2, datum),
       csv_row_with(2, nummer),
       csv_row_with(2, liefer) >>
    \o [k \in 1..Len(items) |-> item_csv_row(items[k])]

\* The file is opened with encoding='ISO-8859-1': a row with a character above
\* U+00FF makes writerow raise UnicodeEncodeError.
encodable(csv_row) ==
    \A k \in 1..Len(csv_row) : \A j \in 1..Len(csv_row[k]) : csv_row[k][j] \notin NotLatin1

----------------------------------------------------------------------------
(* Inputs: the PDF files a call may be given *)

\* The most pages a PDF has, and the most table rows pdfplumber finds in it.
MaxPages == 2

MaxRows == 3

\* Uploaded file names: one without a variant token, two with one.
PdfPaths ==
    { path_join(temp_pdf_input_dir, <<"o", "r", "d", "e", "r", ".", "p", "d", "f">>),
      path_join(temp_pdf_input_dir, <<"a", "e", "z", "_", "2", ".", "p", "d", "f">>) }

\* An EDEKA order: all header fields, delivery address of the market Schaeferwiese.
TEXT_EDEKA ==
    <<"B", "e", "s", "t", "e", "l", "l", "d", "a", "t", "u", "m", ":", " ", "0", "1", ".", "0",
        "1", ".", "2", "0", "2", "5", "\n", "L", "i", "e", "f", "e", "r", "t", "e", "r", "m", "i",
        "n", ":", " ", "0", "2", ".", "0", "1", ".", "2", "0", "2", "5", "\n", "B", "e", "s", "t",
        "e", "l", "l", "n", "u", "m", "m", "e", "r", ":", " ", "1", "2", "3", "\n", "L", "I", "E",
        "F", "E", "R", "A", "N", "S", "C", "H", "R", "I", "F", "T", "\n", "A", "n", " ", "d", "e",
        "r", " ", "S", "c", "h", "U+00E4", "f", "e", "r", "w", "i", "e", "s", "e", " ", "1", "\n",
        "G", "L", "N", ":", " ", "4", "\n">>

\* An EDEKA order with the alternate order number, no delivery date, and an
\* address that names two markets, the later one of the table first.
TEXT_EDEKA_TWO_MARKETS ==
    <<"B", "e", "s", "t", "e", "l", "l", "-", "N", "r", ".", ":", " ", "L", " ", "0", "0", "1",
        "/", "0", "0", "0", "2", ";", "\n", "B", "e", "s", "t", "e", "l", "l", "d", "a", "t", "u",
        "m", ":", " ", "0", "1", ".", "0", "1", ".", "2", "0", "2", "5", "\n", "L", "i", "e", "f",
        "e", "r", "a", "n", "s", "c", "h", "r", "i", "f", "t", "\n", "P", "u", "l", "l", "a", "c",
        "h", ",", " ", "T", "h", "e", "r", "e", "s", "i", "e", "n", "h", "U+00F6", "h", "e", " ",
        "5", "\n", "E", "m", "p", "f", ".", ":", " ", "x", "\n">>

\* An EDEKA order whose address names no market of the table.
TEXT_EDEKA_UNKNOWN_MARKET ==
    <<"B", "e", "s", "t", "e", "l", "l", "d", "a", "t", "u", "m", ":", " ", "0", "1", ".", "0",
        "1", ".", "2", "0", "2", "5", "\n", "B", "e", "s", "t", "e", "l", "l", "n", "u", "m", "m",
        "e", "r", ":", " ", "9", "\n", "L", "I", "E", "F", "E", "R", "A", "N", "S", "C", "H", "R",
        "I", "F", "T", "\n", "H", "a", "u", "p", "t", "s", "t", "r", ".", " ", "1", "\n", "G", "L",
        "N", ":", " ", "4", "\n">>

\* An EDEKA order without an order date.
TEXT_EDEKA_NO_DATE ==
    <<"B", "e", "s", "t", "e", "l", "l", "n", "u", "m", "m", "e", "r", ":", " ", "5", "\n", "L",
        "I", "E", "F", "E", "R", "A", "N", "S", "C", "H", "R", "I", "F", "T", "\n", "E", "i", "n",
        "s", "t", "e", "i", "n", "s", "t", "r", "a", "U+00DF", "e", " ", "5", "\n">>

\* An EDEKA order whose order number is written with an Arabic-Indic digit.
TEXT_EDEKA_ARABIC_NUMBER ==
    <<"B", "e", "s", "t", "e", "l", "l", "d", "a", "t", "u", "m", ":", " ", "0", "1", ".", "0",
        "1", ".", "2", "0", "2", "5", "\n", "B", "e", "s", "t", "e", "l", "l", "n", "u", "m", "m",
        "e", "r", ":", " ", "U+0663", "\n", "L", "I", "E", "F", "E", "R", "A", "N", "S", "C", "H",
        "R", "I", "F", "T", "\n", "U", "n", "t", "e", "r", "h", "a", "c", "h", "i", "n", "g", "\n",
        "I", "h", "r", " ", "A", "n", "s", "p", "r", "e", "c", "h", "p", "a", "r", "t", "n", "e",
        "r", "/", "i", "n", "\n">>

\* A Dohle HIT (AEZ) order of the market Isartal.
TEXT_DOHLE ==
    <<"B", "e", "s", "t", "e", "l", "l", "u", "n", "g", " ", "N", "r", ".", " ", "7", "7", "\n",
        "D", "a", "t", "u", "m", ":", " ", "0", "3", ".", "0", "3", ".", "2", "0", "2", "5", "\n",
        "L", "i", "e", "f", "e", "r", "t", "e", "r", "m", "i", "n", ":", " ", "0", "4", ".", "0",
        "3", ".", "2", "0", "2", "5", "\n", "A", "E", "Z", " ", "H", "a", "u", "s", " ", "8", "0",
        " ", "I", "s", "a", "r", "t", "a", "l", " ", "G", "L", "N", ":", " ", "1", "\n">>

\* A Dohle HIT (AEZ) order of a market the table does not know, no delivery date.
TEXT_DOHLE_UNKNOWN_MARKET ==
    <<"B", "e", "s", "t", "e", "l", "l", "u", "n", "g", " ", "N", "r", " ", "7", "8", " ", "D",
        "a", "t", "u", "m", ":", "0", "3", ".", "0", "3", ".", "2", "0", "2", "5", "\n", "A", "E",
        "Z", " ", "H", "a", "u", "s", " ", "6", "0", " ", "F", "U+00FC", "r", "s", "t", "e", "n",
        "f", "e", "l", "d", "\n">>

\* The text PyPDF2 extracts from the file at a path: any of the texts above, or
\* none at all (a scanned PDF), under a name without a variant token; a Dohle
\* order under a name with one.
TextsOf(pdf_path) ==
    IF is_dohle_file(pdf_path)
    THEN {TEXT_DOHLE, TEXT_DOHLE_UNKNOWN_MARKET}
    ELSE {TEXT_EDEKA, TEXT_EDEKA_TWO_MARKETS, TEXT_EDEKA_UNKNOWN_MARKET, TEXT_EDEKA_NO_DATE,
          TEXT_EDEKA_ARABIC_NUMBER, TEXT_DOHLE, <<>>}

\* A row as extract_tables returns it, before clean_text: the article number
\* and the quantity in the columns of the variant, a remark in the column
\* after the article number, '' in the others and None in the last.
raw_row(dohle, artnr, menge, remark) ==
    [k \in 1..columns_of(dohle) |->
        IF k = artnr_index(dohle) + 1 THEN artnr
        ELSE IF k = menge_index(dohle) + 1 THEN menge
        ELSE IF k = artnr_index(dohle) + 3 THEN remark
        ELSE IF k = columns_of(dohle) THEN None
        ELSE <<>>]

\* The cells of the rows: <<article number, quantity, remark>>.
RowCells ==
    { <<<<"0", "0", "1", "2">>, <<"2", ",", "5">>, <<"K", "U+00E4", "s", "e">>>>,                \* an item
      <<<<"7">>, <<"0", ",", "0", "0">>, <<>>>>,                      \* quantity zero
      <<<<"1", "2", "A", "3">>, <<"1">>, <<>>>>,                      \* article number not numeric
      <<<<"U+0663", "8">>, <<"3">>, <<>>>>,                        \* an item, whole quantity; a digit outside ASCII
      <<<<"_", "_", "_", "_">>, <<"_", "_", "_">>, <<"_", "_", "_", "_", "_">>>>,               \* the line under the table head
      <<<<"5">>, <<"3">>, <<"S", "u", "m", "m", "e">>>>,                    \* a summary row
      <<<<"_", "_", "_">>, <<>>, <<"_", "G", "e", "s", "a", "m", "t", "_">>>>,                \* a line with a summary word in it
      <<None, <<" ">>, <<>>>> }                         \* no text in any cell

\* The rows pdfplumber may find on a page of a file of the variant: the rows
\* above in the variant's columns, and a row that ends with its article number.
RowsOf(dohle) ==
    {raw_row(dohle, c[1], c[2], c[3]) : c \in RowCells}
    \cup {SubSeq(raw_row(dohle, <<"1", "2">>, <<>>, <<>>), 1, artnr_index(dohle) + 1)}

\* The sequences of at most n rows.
RowSeqs(dohle, n) == UNION {[1..k -> RowsOf(dohle)] : k \in 0..n}

----------------------------------------------------------------------------
(* State *)

VARIABLES
    pdf_input_path,          \* the argument of process_single_pdf
    pc,                      \* where the call stands: "read_text", "header", "tables",
                             \* "rows", "write", "copy", "remove", "returned", "raised"
    return_value,            \* what the call returned once pc = "returned": None or a path
    full_text,
    is_dohle,
    bestellnummer,
    bestelldatum,
    lieferdatum,
    delivery_address_block,  \* the local of extract_info_from_text of that name
    markt_kennwort,
    page_number,             \* the pages of the open file pdfplumber has gone through
    page_without_rows,       \* some page gone through had no table row
    table_data_raw,
    i,                       \* the rows the row loop has gone through
    in_data_section,
    processed_article_data,
    files,                   \* the CSV files on disk: path and the rows written
    app_pc,                  \* where the convert button handler of app.py stands: "idle"
                             \* (not running), "loop", "zip", "done", "raised"
    uploaded_files,          \* the uploads of the batch, in submission order
    temp_root_dir,           \* the TemporaryDirectory of the batch exists
    input_pdfs,              \* the uploads saved in temp_pdf_input_dir: path and upload
    uploads_done,            \* the uploads the for loop has gone through
    processed_csv_paths,
    status,                  \* what st.success, st.warning and st.error reported, in order
    zip_entries,             \* the archive written: None, or name and rows of each entry
    download_offered         \* st.download_button was called

\* The state of the convert button handler.
app_vars ==
    <<app_pc, uploaded_files, temp_root_dir, input_pdfs, uploads_done, processed_csv_paths,
      status, zip_entries, download_offered>>

vars ==
    <<pdf_input_path, pc, return_value, full_text, is_dohle, bestellnummer, bestelldatum,
      lieferdatum, delivery_address_block, markt_kennwort, page_number, page_without_rows,
      table_data_raw, i, in_data_section, processed_article_data, files, app_vars>>

header_vars ==
    <<is_dohle, bestellnummer, bestelldatum, lieferdatum, delivery_address_block, markt_kennwort>>

table_vars == <<page_number, page_without_rows, table_data_raw>>

loop_vars == <<i, in_data_section, processed_article_data>>

\* The handler is not running: no upload, no temporary directory, nothing
\* reported.
AppIdle ==
    /\ app_pc = "idle"
    /\ uploaded_files = <<>>
    /\ temp_root_dir = FALSE
    /\ input_pdfs = {}
    /\ uploads_done = 0
    /\ processed_csv_paths = <<>>
    /\ status = <<>>
    /\ zip_entries = None
    /\ download_offered = FALSE

\* A call of process_single_pdf on its own.  A local that is not assigned yet
\* holds '', [] , 0 or False.
Init ==
    /\ AppIdle
    /\ pdf_input_path \in PdfPaths
    /\ pc = "read_text"
    /\ return_value = None
    /\ full_text = <<>>
    /\ is_dohle = FALSE
    /\ bestellnummer = <<>>
    /\ bestelldatum = <<>>
    /\ lieferdatum = <<>>
    /\ delivery_address_block = <<>>
    /\ markt_kennwort = <<>>
    /\ page_number = 0
    /\ page_without_rows = FALSE
    /\ table_data_raw = <<>>
    /\ i = 0
    /\ in_data_section = FALSE
    /\ processed_article_data = <<>>
    /\ files = {}

\* return None
ReturnNone ==
    /\ pc' = "returned"
    /\ return_value' = None

\* open(path, 'w') and the writes: the file at path holds exactly these rows.
write_file(fs, path, rows) == {f \in fs : f.path # path} \cup {[path |-> path, rows |-> rows]}

\* os.remove(path)
remove_file(fs, path) == {f \in fs : f.path # path}

file_exists(fs, path) == \E f \in fs : f.path = path

file_rows(fs, path) == (CHOOSE f \in fs : f.path = path).rows

----------------------------------------------------------------------------
(* process_single_pdf, step by step *)

\* PyPDF2 cannot open or parse the file (except Exception ... return None), or
\* the file is encrypted (if reader.is_encrypted: ... return None).
ReadTextFails ==
    /\ pc = "read_text"
    /\ ReturnNone
    /\ UNCHANGED <<app_vars, pdf_input_path, full_text, header_vars, table_vars, loop_vars, files>>

\* full_text += reader.pages[page_num].extract_text() or "", over all pages.
ReadText ==
    /\ pc = "read_text"
    /\ \E text \in TextsOf(pdf_input_path) : full_text' = text
    /\ pc' = "header"
    /\ UNCHANGED <<app_vars, pdf_input_path, return_value, header_vars, table_vars, loop_vars, files>>

\* The variant from the file name, extract_info_from_text, and the check of
\* the market password.
ExtractHeader ==
    /\ pc = "header"
    /\ is_dohle' = is_dohle_file(pdf_input_path)
    /\ \E info \in {extract_info_from_text(full_text, is_dohle_file(pdf_input_path))} :
          /\ bestellnummer' = info.bestellnummer
          /\ bestelldatum' = info.bestelldatum
          /\ lieferdatum' = info.lieferdatum
          /\ delivery_address_block' = info.delivery_address_block
          /\ markt_kennwort' = info.markt_kennwort
    /\ IF missing_credential(is_dohle', markt_kennwort')
       THEN ReturnNone
       ELSE pc' = "tables" /\ UNCHANGED return_value
    /\ UNCHANGED <<app_vars, pdf_input_path, full_text, table_vars, loop_vars, files>>

\* pdfplumber cannot open the file, or crop or extract_tables raises on a
\* page: except Exception ... return None.
ExtractTablesFails ==
    /\ pc = "tables"
    /\ ReturnNone
    /\ UNCHANGED <<app_vars, pdf_input_path, full_text, header_vars, table_vars, loop_vars, files>>

\* One page of  for page in pdf.pages:  the rows of its tables, cleaned, are
\* appended to table_data_raw.
ExtractPage ==
    /\ pc = "tables"
    /\ page_number < MaxPages
    /\ \E rows \in RowSeqs(is_dohle, MaxRows - Len(table_data_raw)) :
          /\ table_data_raw' = table_data_raw \o [k \in 1..Len(rows) |-> clean_row(rows[k])]
          /\ page_without_rows' = (page_without_rows \/ rows = <<>>)
    /\ page_number' = page_number + 1
    /\ UNCHANGED <<app_vars, pdf_input_path, pc, return_value, full_text, header_vars, loop_vars, files>>

\* The file has no further page and is closed: the check for an empty
\* table_data_raw.
FinishTables ==
    /\ pc = "tables"
    /\ page_number' = 0
    /\ IF no_table_found(table_data_raw)
       THEN ReturnNone
       ELSE pc' = "rows" /\ UNCHANGED return_value
    /\ UNCHANGED <<app_vars, pdf_input_path, full_text, header_vars, page_without_rows, table_data_raw,
                   loop_vars, files>>

\* One iteration of  for i, row in enumerate(table_data_raw).
ProcessRow ==
    /\ pc = "rows"
    /\ i < Len(table_data_raw)
    /\ \E step \in {process_row(table_data_raw[i + 1], is_dohle, in_data_section,
                                 bestelldatum, bestellnummer)} :
          /\ in_data_section' = step.in_data_section
          /\ processed_article_data' = processed_article_data \o step.items
    /\ i' = i + 1
    /\ UNCHANGED <<app_vars, pdf_input_path, pc, return_value, full_text, header_vars, table_vars, files>>

\* After the loop: the check for an empty processed_article_data.
FinishRows ==
    /\ pc = "rows"
    /\ i = Len(table_data_raw)
    /\ IF no_valid_items(processed_article_data)
       THEN ReturnNone
       ELSE pc' = "write" /\ UNCHANGED return_value
    /\ UNCHANGED <<app_vars, pdf_input_path, full_text, header_vars, table_vars, loop_vars, files>>

\* open(temp_csv_path, 'w', ...) raises (the directory is gone or not
\* writable).  The with statement is in no try block: the exception leaves
\* process_single_pdf.
OpenCsvFails ==
    /\ pc = "write"
    /\ pc' = "raised"
    /\ UNCHANGED <<app_vars, pdf_input_path, return_value, full_text, header_vars, table_vars, loop_vars,
                   files>>

\* The with-block that writes the temporary CSV.  The rows are written in
\* order; the first row that cannot be encoded raises, the file is closed with
\* the rows before it, and the exception leaves process_single_pdf.
WriteCsv ==
    /\ pc = "write"
    /\ \E rows \in {csv_rows(markt_kennwort, bestelldatum, bestellnummer, lieferdatum,
                              processed_article_data)} :
          \E bad \in {{k \in 1..Len(rows) : ~encodable(rows[k])}} :
             IF bad = {}
             THEN /\ files' = write_file(files, temp_csv_path_of(pdf_input_path), rows)
                  /\ pc' = "copy"
             ELSE /\ files' = write_file(files, temp_csv_path_of(pdf_input_path),
                                         SubSeq(rows, 1, Min(bad) - 1))
                  /\ pc' = "raised"
    /\ UNCHANGED <<app_vars, pdf_input_path, return_value, full_text, header_vars, table_vars, loop_vars>>

\* The rows are encoded into the file's buffer, but the disk is full when the
\* file is closed: the file stays empty, and the exception leaves
\* process_single_pdf.
WriteCsvFails ==
    /\ pc = "write"
    /\ \A k \in 1..Len(processed_article_data) + 5 :
          encodable(csv_rows(markt_kennwort, bestelldatum, bestellnummer, lieferdatum,
                             processed_article_data)[k])
    /\ files' = write_file(files, temp_csv_path_of(pdf_input_path), <<>>)
    /\ pc' = "raised"
    /\ UNCHANGED <<app_vars, pdf_input_path, return_value, full_text, header_vars, table_vars, loop_vars>>

\* shutil.copy(temp_csv_path, final_csv_path)
CopyCsv ==
    /\ pc = "copy"
    /\ files' = write_file(files, final_csv_path_of(pdf_input_path),
                           file_rows(files, temp_csv_path_of(pdf_input_path)))
    /\ pc' = "remove"
    /\ UNCHANGED <<app_vars, pdf_input_path, return_value, full_text, header_vars, table_vars, loop_vars>>

\* shutil.copy raises, the destination as it was: except Exception ... return None.
CopyCsvFails ==
    /\ pc = "copy"
    /\ ReturnNone
    /\ UNCHANGED <<app_vars, pdf_input_path, full_text, header_vars, table_vars, loop_vars, files>>

\* os.remove(temp_csv_path); return final_csv_path
RemoveTemp ==
    /\ pc = "remove"
    /\ files' = remove_file(files, temp_csv_path_of(pdf_input_path))
    /\ pc' = "returned"
    /\ return_value' = final_csv_path_of(pdf_input_path)
    /\ UNCHANGED <<app_vars, pdf_input_path, full_text, header_vars, table_vars, loop_vars>>

\* os.remove raises: except Exception ... return None.
RemoveTempFails ==
    /\ pc = "remove"
    /\ ReturnNone
    /\ UNCHANGED <<app_vars, pdf_input_path, full_text, header_vars, table_vars, loop_vars, files>>

Next ==
    \/ ReadTextFails
    \/ ReadText
    \/ ExtractHeader
    \/ ExtractTablesFails
    \/ ExtractPage
    \/ FinishTables
    \/ ProcessRow
    \/ FinishRows
    \/ OpenCsvFails
    \/ WriteCsv
    \/ WriteCsvFails
    \/ CopyCsv
    \/ CopyCsvFails
    \/ RemoveTemp
    \/ RemoveTempFails

Spec == Init /\ [][Next]_vars


----------------------------------------------------------------------------
(* process_single_pdf as one call *)

\* Where the environment makes a call fail: nowhere, PyPDF2 on the file,
\* pdfplumber on the file, open of the temporary CSV, its close (disk full),
\* shutil.copy, os.remove.
Faults == {"none", "read_text", "tables", "open", "close", "copy", "remove"}

\* How a call ends: "returned" with its value, or "raised", and the CSV files
\* it leaves on disk.
call_end(outcome, value, fs) == [outcome |-> outcome, return_value |-> value, files |-> fs]

\* The loop over table_data_raw from row k on: the items it appends.
RECURSIVE scan_rows(_, _, _, _, _, _)
RECURSIVE scan_next(_, _, _, _, _, _)
scan_rows(table, k, dohle, in_data, datum, nummer) ==
    IF k > Len(table) THEN <<>>
    ELSE scan_next(table, k, dohle, datum, nummer,
                   process_row(table[k], dohle, in_data, datum, nummer))

scan_next(table, k, dohle, datum, nummer, step) ==
    step.items \o scan_rows(table, k + 1, dohle, step.in_data_section, datum, nummer)

\* The with-block that writes the CSV (bad: the rows that cannot be encoded),
\* the copy and the removal.
call_write(pdf_path, fs, rows, bad, fault) ==
    IF fault = "open" THEN call_end("raised", None, fs)
    ELSE IF bad # {}
        THEN call_end("raised", None,
                      write_file(fs, temp_csv_path_of(pdf_path), SubSeq(rows, 1, Min(bad) - 1)))
    ELSE IF fault = "close"
        THEN call_end("raised", None, write_file(fs, temp_csv_path_of(pdf_path), <<>>))
    ELSE IF fault = "copy"
        THEN call_end("returned", None, write_file(fs, temp_csv_path_of(pdf_path), rows))
    ELSE IF fault = "remove"
        THEN call_end("returned", None,
                      write_file(write_file(fs, temp_csv_path_of(pdf_path), rows),
                                 final_csv_path_of(pdf_path), rows))
    ELSE call_end("returned", final_csv_path_of(pdf_path),
                  write_file(remove_file(fs, temp_csv_path_of(pdf_path)),
                             final_csv_path_of(pdf_path), rows))

call_rows(pdf_path, fs, rows, fault) ==
    call_write(pdf_path, fs, rows, {k \in 1..Len(rows) : ~encodable(rows[k])}, fault)

\* From the check of processed_article_data on.
call_items(pdf_path, fs, info, items, fault) ==
    IF no_valid_items(items) THEN call_end("returned", None, fs)
    ELSE call_rows(pdf_path, fs,
                   csv_rows(info.markt_kennwort, info.bestelldatum, info.bestellnummer,
                            info.lieferdatum, items),
                   fault)

\* From the extraction of the tables on (table: the rows found, cleaned).
call_tables(pdf_path, fs, info, table, dohle, fault) ==
    IF fault = "tables" \/ no_table_found(table) THEN call_end("returned", None, fs)
    ELSE call_items(pdf_path, fs, info,
                    scan_rows(table, 1, dohle, FALSE, info.bestelldatum, info.bestellnummer),
                    fault)

\* From the check of the market password on.
call_header(pdf_path, fs, info, rows, dohle, fault) ==
    IF missing_credential(dohle, info.markt_kennwort) THEN call_end("returned", None, fs)
    ELSE call_tables(pdf_path, fs, info, [k \in 1..Len(rows) |-> clean_row(rows[k])], dohle,
                     fault)

\* process_single_pdf(pdf_path, temp_csv_output_dir, final_csv_download_dir) on
\* a file with this text and these table rows, with the files fs on disk.
process_single_pdf(pdf_path, text, rows, fs, fault) ==
    IF fault = "read_text" THEN call_end("returned", None, fs)
    ELSE call_header(pdf_path, fs, extract_info_from_text(text, is_dohle_file(pdf_path)), rows,
                     is_dohle_file(pdf_path), fault)

----------------------------------------------------------------------------
(* The convert button handler of app.py *)

\* The most files of an upload.
MaxUploads == 2

\* The table of an EDEKA order: the line under the table head and one item.
EDEKA_ROWS(artnr, menge) ==
    << raw_row(FALSE, <<"_", "_", "_", "_">>, <<"_", "_", "_">>, <<"_", "_", "_", "_", "_">>), raw_row(FALSE, artnr, menge, <<>>) >>

\* Files a user may upload: the name, the text PyPDF2 extracts and the table
\* rows pdfplumber finds.  Two orders share the name order.pdf, a third has
\* that name with the extension in capitals; one order is of an unknown
\* market, one has an order number that ISO-8859-1 cannot encode.
Uploads ==
    { [name |-> <<"o", "r", "d", "e", "r", ".", "p", "d", "f">>, text |-> TEXT_EDEKA, rows |-> EDEKA_ROWS(<<"0",
        "0", "1", "2">>, <<"2", ",", "5">>)],
      [name |-> <<"o", "r", "d", "e", "r", ".", "p", "d", "f">>, text |-> TEXT_EDEKA_NO_DATE, rows |-> EDEKA_ROWS(<<"7">>, <<"1">>)],
      [name |-> <<"o", "r", "d", "e", "r", ".", "P", "D", "F">>, text |-> TEXT_EDEKA_TWO_MARKETS,
       rows |-> EDEKA_ROWS(<<"3", "8">>, <<"3">>)],
      [name |-> <<"o", "t", "h", "e", "r", ".", "p", "d", "f">>, text |-> TEXT_EDEKA_UNKNOWN_MARKET,
       rows |-> EDEKA_ROWS(<<"5">>, <<"1">>)],
      [name |-> <<"t", "h", "i", "r", "d", ".", "p", "d", "f">>, text |-> TEXT_EDEKA_ARABIC_NUMBER,
       rows |-> EDEKA_ROWS(<<"9">>, <<"4">>)],
      [name |-> <<"a", "e", "z", "_", "2", ".", "p", "d", "f">>, text |-> TEXT_DOHLE,
       rows |-> << raw_row(TRUE, <<"4", "4">>, <<"6">>, <<>>) >>] }

\* The button is clicked on an upload of up to MaxUploads files.
BatchInit ==
    /\ app_pc = "clicked"
    /\ uploaded_files \in UNION {[1..n -> Uploads] : n \in 0..MaxUploads}
    /\ temp_root_dir = FALSE
    /\ input_pdfs = {}
    /\ uploads_done = 0
    /\ processed_csv_paths = <<>>
    /\ status = <<>>
    /\ zip_entries = None
    /\ download_offered = FALSE
    /\ pdf_input_path = <<>>
    /\ pc = "returned"
    /\ return_value = None
    /\ full_text = <<>>
    /\ is_dohle = FALSE
    /\ bestellnummer = <<>>
    /\ bestelldatum = <<>>
    /\ lieferdatum = <<>>
    /\ delivery_address_block = <<>>
    /\ markt_kennwort = <<>>
    /\ page_number = 0
    /\ page_without_rows = FALSE
    /\ table_data_raw = <<>>
    /\ i = 0
    /\ in_data_section = FALSE
    /\ processed_article_data = <<>>
    /\ files = {}

\* The locals of a call of process_single_pdf, which the handler does not see.
call_locals == <<full_text, header_vars, table_vars, loop_vars>>

\* if not uploaded_files: st.warning(...)  else: the TemporaryDirectory and its
\* three directories are created, processed_csv_paths = [].
Click ==
    /\ app_pc = "clicked"
    /\ IF uploaded_files = <<>>
       THEN /\ status' = Append(status, <<"warning", <<>>>>)
            /\ app_pc' = "done"
            /\ UNCHANGED temp_root_dir
       ELSE /\ temp_root_dir' = TRUE
            /\ app_pc' = "loop"
            /\ UNCHANGED status
    /\ UNCHANGED <<uploaded_files, input_pdfs, uploads_done, processed_csv_paths, zip_entries,
                   download_offered, pdf_input_path, pc, return_value, call_locals, files>>

\* input_pdf_path = os.path.join(temp_pdf_input_dir, uploaded_file.name)
input_pdf_path_of(uploaded_file) == path_join(temp_pdf_input_dir, uploaded_file.name)

\* What the handler reports after a call.
status_of(result, uploaded_file) ==
    IF result.outcome = "raised" THEN <<"error", uploaded_file.name>>
    ELSE IF result.return_value # None /\ result.return_value # <<>>
        THEN <<"success", uploaded_file.name>>
    ELSE <<"warning", uploaded_file.name>>

\* if final_csv_path: processed_csv_paths.append(final_csv_path)
paths_after(paths, result) ==
    IF result.outcome = "returned" /\ result.return_value # None /\ result.return_value # <<>>
    THEN Append(paths, result.return_value)
    ELSE paths

\* One iteration of  for uploaded_file in uploaded_files:  the upload is saved
\* under its name, process_single_pdf is called on it inside try ... except
\* Exception, and its result is reported and recorded.
ConvertUpload ==
    /\ app_pc = "loop"
    /\ uploads_done < Len(uploaded_files)
    /\ \E fault \in Faults :
          \E uploaded_file \in {uploaded_files[uploads_done + 1]} :
             \E result \in {process_single_pdf(input_pdf_path_of(uploaded_file),
                                               uploaded_file.text, uploaded_file.rows,
                                               files, fault)} :
                /\ input_pdfs' = {f \in input_pdfs : f.path # input_pdf_path_of(uploaded_file)}
                                   \cup {[path |-> input_pdf_path_of(uploaded_file),
                                          text |-> uploaded_file.text]}
                /\ pdf_input_path' = input_pdf_path_of(uploaded_file)
                /\ pc' = result.outcome
                /\ return_value' = result.return_value
                /\ files' = result.files
                /\ processed_csv_paths' = paths_after(processed_csv_paths, result)
                /\ status' = Append(status, status_of(result, uploaded_file))
    /\ uploads_done' = uploads_done + 1
    /\ UNCHANGED <<app_pc, uploaded_files, temp_root_dir, zip_entries, download_offered,
                   call_locals>>

\* open(input_pdf_path, "wb") or f.write raises (the name is longer than the
\* file system takes, the disk is full).  The two statements are in no try
\* block: the exception leaves the handler, through the with statement, which
\* deletes the temporary directory.
SaveUploadFails ==
    /\ app_pc = "loop"
    /\ uploads_done < Len(uploaded_files)
    /\ app_pc' = "raised"
    /\ temp_root_dir' = FALSE
    /\ input_pdfs' = {}
    /\ files' = {}
    /\ UNCHANGED <<uploaded_files, uploads_done, processed_csv_paths, status, zip_entries,
                   download_offered, pdf_input_path, pc, return_value, call_locals>>

\* The for loop is done and the with statement of the TemporaryDirectory ends:
\* the directory and all in it are deleted.
ExitTemporaryDirectory ==
    /\ app_pc = "loop"
    /\ uploads_done = Len(uploaded_files)
    /\ app_pc' = "zip"
    /\ temp_root_dir' = FALSE
    /\ input_pdfs' = {}
    /\ files' = {}
    /\ UNCHANGED <<uploaded_files, uploads_done, processed_csv_paths, status, zip_entries,
                   download_offered, pdf_input_path, pc, return_value, call_locals>>

\* zipf.write(csv_path, os.path.basename(csv_path)) for each recorded path.
zip_of(fs, paths) ==
    [k \in 1..Len(paths) |-> [name |-> basename(paths[k]), rows |-> file_rows(fs, paths[k])]]

\* if processed_csv_paths: the archive is written to zip_file_path, in
\* temp_root_dir, read back and offered; ZipFile(...) raises when the directory
\* is gone and zipf.write when a CSV is, and except Exception reports it.
\* else: st.warning(...).
PackageZip ==
    /\ app_pc = "zip"
    /\ IF processed_csv_paths = <<>>
       THEN /\ status' = Append(status, <<"warning", <<>>>>)
            /\ UNCHANGED <<zip_entries, download_offered>>
       ELSE IF temp_root_dir /\ \A k \in 1..Len(processed_csv_paths) :
                                    file_exists(files, processed_csv_paths[k])
       THEN /\ zip_entries' = zip_of(files, processed_csv_paths)
            /\ download_offered' = TRUE
            /\ status' = Append(status, <<"success", <<>>>>)
       ELSE /\ status' = Append(status, <<"error", <<>>>>)
            /\ UNCHANGED <<zip_entries, download_offered>>
    /\ app_pc' = "done"
    /\ UNCHANGED <<uploaded_files, temp_root_dir, input_pdfs, uploads_done, processed_csv_paths,
                   pdf_input_path, pc, return_value, call_locals, files>>

BatchNext ==
    \/ Click
    \/ ConvertUpload
    \/ SaveUploadFails
    \/ ExitTemporaryDirectory
    \/ PackageZip

BatchSpec == BatchInit /\ [][BatchNext]_vars

----------------------------------------------------------------------------
(* Properties *)

\* The with-block wrote every row of the CSV: the files on disk are whole.
CsvWritten == pc \in {"copy", "remove"} \/ (pc = "returned" /\ files # {})

\* An address block holds the k-th key of MARKET_PASSWORDS.
HoldsKey(block, k) == Contains(block, MARKET_PASSWORDS[k].key)

\* Where the k-th key first occurs in an address block.
KeyPosition(block, k) ==
    Min({p \in 1..Len(block) : MatchAt(block, p, MARKET_PASSWORDS[k].key)})

\* Every cell of the row that is not empty begins with an underscore.
UnderscoreRow(row) ==
    \A k \in 1..Len(row) : strip(row[k]) = <<>> \/ Head(strip(row[k])) = "_"

\* C1: whenever process_single_pdf returns None, no CSV file of the document
\* exists in temp_csv_output_dir or in final_csv_download_dir.
C1_NoOutputOnNone ==
    (pc = "returned" /\ return_value = None) =>
        /\ ~file_exists(files, temp_csv_path_of(pdf_input_path))
        /\ ~file_exists(files, final_csv_path_of(pdf_input_path))

\* C2: no exception leaves process_single_pdf: every failure of a step inside
\* it ends in a return, never in a raise.
C2_NoExceptionEscapes == pc # "raised"

\* C3: a document whose file name holds no variant token and whose address
\* block resolves no market password is rejected (None is returned) once its
\* header is read, with no table row read, no item and no CSV row written.
C3_MissingCredentialRejected ==
    \/ pc \in {"read_text", "header"}
    \/ /\ pc = "returned"
       /\ return_value = None
       /\ table_data_raw = <<>>
       /\ processed_article_data = <<>>
       /\ files = {}
    \/ is_dohle
    \/ \E k \in 1..Len(MARKET_PASSWORDS) : HoldsKey(delivery_address_block, k)

\* C3, reached: an order without a variant token in its name, with order
\* number, order date and an address block that names no market, was rejected.
C3_Witness ==
    /\ pc = "returned"
    /\ return_value = None
    /\ ~is_dohle
    /\ delivery_address_block # <<>>
    /\ \A k \in 1..Len(MARKET_PASSWORDS) : ~HoldsKey(delivery_address_block, k)
    /\ bestellnummer # <<>>
    /\ bestelldatum # <<>>

\* C4: every accepted line item has an article number that is the trimmed text
\* of the article cell of a row of table_data_raw gone through, not empty and
\* of the digits 0-9 only ("12A3" is never one), and a quantity above zero
\* that is the value of that row's quantity cell (never that of "0,00").
C4_AcceptedItems ==
    \A n \in 1..Len(processed_article_data) :
        LET item == processed_article_data[n]
        IN  /\ item.artikelnummer # <<>>
            /\ \A k \in 1..Len(item.artikelnummer) : item.artikelnummer[k] \in AsciiDigit
            /\ item.artikelnummer # <<"1", "2", "A", "3">>
            /\ item.bestellmenge.kind \in {"finite", "inf"}
            /\ ~item.bestellmenge.neg
            /\ item.bestellmenge.kind = "finite" => item.bestellmenge.m > 0
            /\ \E r \in 1..i :
                  LET cell == cell_or_empty(table_data_raw[r], artnr_index(is_dohle))
                      menge == cell_or_empty(table_data_raw[r], menge_index(is_dohle))
                  IN  /\ item.artikelnummer = strip(cell)
                      /\ menge # <<"0", ",", "0", "0">>
                      /\ item.bestellmenge = float(replace_char(menge, ",", "."))

\* C4, reached: the article number "0012" was accepted with its leading zeros,
\* from a table that also held the rows "12A3" and "0,00".
C4_Witness ==
    /\ pc = "rows"
    /\ i = Len(table_data_raw)
    /\ \E n \in 1..Len(processed_article_data) :
          processed_article_data[n].artikelnummer = <<"0", "0", "1", "2">>
    /\ \E r \in 1..Len(table_data_raw) :
          cell_or_empty(table_data_raw[r], artnr_index(is_dohle)) = <<"1", "2", "A", "3">>
    /\ \E r \in 1..Len(table_data_raw) :
          cell_or_empty(table_data_raw[r], menge_index(is_dohle)) = <<"0", ",", "0", "0">>

\* C5: a CSV file exists only for a document with at least one accepted line
\* item, an order date and an order number, and every CSV the with-block wrote
\* to its end holds at least one line-item row and the non-empty order date
\* and order number in rows 3 and 4; a delivery date is not needed.
C5_RequiredFields ==
    /\ files # {} =>
          /\ processed_article_data # <<>>
          /\ bestelldatum # <<>>
          /\ bestellnummer # <<>>
    /\ CsvWritten =>
          \A f \in files :
              /\ Len(f.rows) >= 6
              /\ f.rows[3][3] # <<>>
              /\ f.rows[4][3] # <<>>
              /\ \A r \in 6..Len(f.rows) : f.rows[r][2] # <<>> /\ f.rows[r][5] # <<>>

\* C5, reached: a document without a delivery date was converted, row 5 of its
\* CSV having an empty 3rd column.
C5_Witness ==
    /\ pc = "returned"
    /\ return_value # None
    /\ lieferdatum = <<>>
    /\ file_exists(files, return_value)
    /\ file_rows(files, return_value)[5] = empty_csv_row

\* C6: the CSV written for n accepted items has 5 + n rows of 15 columns: the
\* market password in column 15 of row 1, row 2 empty, order date, order
\* number and delivery date in column 3 of rows 3, 4 and 5, then one row per
\* item, in order, with the article number in column 2 and in column 5 the
\* quantity, written without a period and reading back, its comma taken as
\* the decimal separator, as the quantity of the item; all other cells empty.
C6_CsvLayout ==
    CsvWritten =>
        \A f \in files :
            LET n == Len(processed_article_data)
            IN  /\ Len(f.rows) = 5 + n
                /\ \A r \in 1..Len(f.rows) : Len(f.rows[r]) = 15
                /\ f.rows[1][15] = markt_kennwort
                /\ f.rows[3][3] = bestelldatum
                /\ f.rows[4][3] = bestellnummer
                /\ f.rows[5][3] = lieferdatum
                /\ \A k \in 1..n :
                      /\ f.rows[5 + k][2] = processed_article_data[k].artikelnummer
                      /\ ~Contains(f.rows[5 + k][5], <<".">>)
                      /\ float(replace_char(f.rows[5 + k][5], ",", "."))
                            = processed_article_data[k].bestellmenge
                /\ \A r \in 1..Len(f.rows) : \A c \in 1..15 :
                      \/ f.rows[r][c] = <<>>
                      \/ r = 1 /\ c = 15
                      \/ r \in 3..5 /\ c = 3
                      \/ r > 5 /\ c \in {2, 5}

\* C6, reached: a CSV of two items was returned, 7 rows long, the second item
\* row differing from the first.
C6_Witness ==
    /\ pc = "returned"
    /\ return_value # None
    /\ Len(processed_article_data) = 2
    /\ Len(file_rows(files, return_value)) = 7
    /\ file_rows(files, return_value)[6] # file_rows(files, return_value)[7]
    /\ lieferdatum # <<>>

\* C7: for a document of the Dohle/AEZ variant (by file name), column 15 of
\* the first row of the CSV is the empty string.
C7_DohleNoPassword ==
    (CsvWritten /\ is_dohle) =>
        \A f \in files : f.rows[1][15] = <<>>

\* C8: for the default variant the market password is that of the key of
\* MARKET_PASSWORDS defined earliest among the keys the normalized upper-cased
\* address block holds, wherever they stand in the block, and the empty string
\* when it holds none.
C8_FirstKeyInTableOrder ==
    (pc \notin {"read_text", "header"} /\ ~is_dohle) =>
        IF markt_kennwort = <<>>
        THEN \A k \in 1..Len(MARKET_PASSWORDS) : ~HoldsKey(delivery_address_block, k)
        ELSE \E k \in 1..Len(MARKET_PASSWORDS) :
                /\ markt_kennwort = MARKET_PASSWORDS[k].password
                /\ HoldsKey(delivery_address_block, k)
                /\ \A j \in 1..(k - 1) : ~HoldsKey(delivery_address_block, j)

\* C8, reached: the address block held two keys, the one defined later in the
\* table standing first in the text, and the password is that of the key
\* defined earlier.
C8_Witness ==
    /\ pc = "tables"
    /\ ~is_dohle
    /\ \E k, j \in 1..Len(MARKET_PASSWORDS) :
          /\ k < j
          /\ HoldsKey(delivery_address_block, k)
          /\ HoldsKey(delivery_address_block, j)
          /\ KeyPosition(delivery_address_block, j) < KeyPosition(delivery_address_block, k)
          /\ markt_kennwort = MARKET_PASSWORDS[k].password
          /\ markt_kennwort # MARKET_PASSWORDS[j].password

\* C9: in the row loop a row whose every non-empty cell begins with an
\* underscore appends no line item, in both variants; in the default variant
\* in_data_section becomes true at such a row (one that is not empty) and at no
\* other row; in the Dohle variant in_data_section never changes, and a first
\* row with a numeric article number and a quantity above zero is accepted.
C9_DelimiterRow ==
    [][(pc = "rows" /\ i' = i + 1) =>
          LET row == table_data_raw[i + 1]
          IN  /\ UnderscoreRow(row) => processed_article_data' = processed_article_data
              /\ ~is_dohle =>
                    /\ (UnderscoreRow(row) /\ ~is_empty_row(row)) => in_data_section'
                    /\ in_data_section' # in_data_section =>
                          (UnderscoreRow(row) /\ ~in_data_section /\ in_data_section')
              /\ is_dohle =>
                    /\ in_data_section' = in_data_section
                    /\ (/\ i = 0
                        /\ isdigit(cell_or_empty(row, 4))
                        /\ parse_bestellmenge(cell_or_empty(row, 7)).ok
                        /\ greater_than_zero(parse_bestellmenge(cell_or_empty(row, 7)))
                        /\ ~is_summary_row(row)
                        /\ bestelldatum # <<>>
                        /\ bestellnummer # <<>>) =>
                          Len(processed_article_data') = 1]_vars

\* C9, reached: in a Dohle file the first row was a row of underscores, which
\* appended nothing, and the second row was accepted.
C9_Witness ==
    /\ is_dohle
    /\ pc = "rows"
    /\ i = 2
    /\ UnderscoreRow(table_data_raw[1])
    /\ ~is_empty_row(table_data_raw[1])
    /\ Len(processed_article_data) = 1

\* C10 as stated: once a page has yielded no table row, the document is
\* rejected (None is returned) and no CSV is written.
C10_EmptyPageRejects ==
    page_without_rows =>
        /\ pc = "returned" => return_value = None
        /\ files = {}

\* C10 as amended: a document whose pages together yield no table row is
\* rejected when its last page is done: None is returned, the row loop is not
\* entered and no CSV is written.
C10_NoRowAtAllRejects ==
    (table_data_raw = <<>> /\ pc \notin {"read_text", "header", "tables"}) =>
        /\ pc = "returned"
        /\ return_value = None
        /\ files = {}

\* C10, reached: every page of a document that passed the header checks was
\* gone through, none yielded a row, and None was returned.
C10_Witness ==
    /\ pc = "returned"
    /\ return_value = None
    /\ ~missing_credential(is_dohle, markt_kennwort)
    /\ full_text # <<>>
    /\ page_without_rows
    /\ page_number = 0
    /\ table_data_raw = <<>>


\* A row that opens the data section of the default variant: it is not empty
\* and every cell of it that is not empty begins with an underscore.
DelimiterRow(row) == ~is_empty_row(row) /\ UnderscoreRow(row)

\* One of the first n rows of the table is such a row.
DelimiterSeen(table, n) == \E j \in 1..n : DelimiterRow(table[j])

\* C14: in the default (EDEKA) variant the row loop starts outside the data
\* section, and while no delimiter row is among the rows gone through it is
\* outside it and there is no line item; going through a row at or before the
\* first delimiter row appends no line item; when the loop ends on a table
\* without a delimiter row, None is returned and no CSV is written; and
\* in_data_section, once true, stays true.
C14_BeforeDataDropsRows ==
    [][~is_dohle =>
          /\ (pc = "rows" /\ ~DelimiterSeen(table_data_raw, i)) =>
                /\ in_data_section = FALSE
                /\ processed_article_data = <<>>
          /\ (pc = "rows" /\ i' = i + 1 /\ ~DelimiterSeen(table_data_raw, i)) =>
                processed_article_data' = processed_article_data
          /\ (pc = "rows" /\ pc' # "rows"
                  /\ ~DelimiterSeen(table_data_raw, Len(table_data_raw))) =>
                /\ pc' = "returned"
                /\ return_value' = None
                /\ files' = {}
          /\ in_data_section = TRUE => in_data_section' = TRUE]_vars

\* C14, reached: a document of the default variant with a complete header and
\* a table that holds a row with a numeric article number and a quantity above
\* zero, but no delimiter row, was gone through to its last row and rejected.
C14_Witness ==
    /\ ~is_dohle
    /\ pc = "returned"
    /\ return_value = None
    /\ bestelldatum # <<>>
    /\ bestellnummer # <<>>
    /\ i > 0
    /\ i = Len(table_data_raw)
    /\ ~DelimiterSeen(table_data_raw, i)
    /\ \E r \in 1..i :
          /\ cell_or_empty(table_data_raw[r], 0) = <<"0", "0", "1", "2">>
          /\ cell_or_empty(table_data_raw[r], 1) = <<"2", ",", "5">>

\* A row the loop drops as noise: entirely empty, or with one of the markers
\* PLAN MHD, SUMME, GESAMT in its cells joined and upper-cased.
NoiseRow(row) == is_empty_row(row) \/ is_summary_row(row)

\* C15: going through a row that is entirely empty or holds a noise marker
\* leaves the list of line items and in_data_section as they were, in any
\* state and variant.
C15_NoiseRowChangesNothing ==
    [][(pc = "rows" /\ i' = i + 1 /\ NoiseRow(table_data_raw[i + 1])) =>
          /\ processed_article_data' = processed_article_data
          /\ in_data_section' = in_data_section]_vars

\* The cell of a row at a 0-based column, '' when the row has no such column.
CellAt(row, column) == IF column + 1 \in DOMAIN row THEN row[column + 1] ELSE <<>>

\* The k-th row of a table passes the checks of a line item: it stands after a
\* delimiter row (in the Dohle variant: anywhere), is no noise row, its article
\* cell trimmed is all digits and its quantity cell is a number above zero.
RowPasses(table, k, dohle) ==
    /\ dohle \/ DelimiterSeen(table, k - 1)
    /\ ~NoiseRow(table[k])
    /\ isdigit(strip(CellAt(table[k], IF dohle THEN 4 ELSE 0)))
    /\ parse_bestellmenge(CellAt(table[k], IF dohle THEN 7 ELSE 1)).ok
    /\ greater_than_zero(parse_bestellmenge(CellAt(table[k], IF dohle THEN 7 ELSE 1)))

\* The line item of a row that passes.
ItemOf(row, dohle) ==
    [artikelnummer |-> strip(CellAt(row, IF dohle THEN 4 ELSE 0)),
     bestellmenge |-> parse_bestellmenge(CellAt(row, IF dohle THEN 7 ELSE 1))]

\* The line items of the rows among the first n of a table that pass, in the
\* order of the rows.
RECURSIVE PassingItems(_, _, _)
PassingItems(table, n, dohle) ==
    IF n = 0 THEN <<>>
    ELSE PassingItems(table, n - 1, dohle)
            \o (IF RowPasses(table, n, dohle) THEN <<ItemOf(table[n], dohle)>> ELSE <<>>)

\* C16 as stated: when the row loop has gone through the table, the accepted
\* line items are the items of exactly the rows that pass the checks (data
\* state, not empty, no noise marker, digits-only article number and quantity
\* above zero at the variant's columns, a missing column read as empty), in
\* the order of the rows.
C16_ItemsAreThePassingRows ==
    (pc = "rows" /\ i = Len(table_data_raw)) =>
        processed_article_data = PassingItems(table_data_raw, i, is_dohle)

\* C16 as amended: the same for a document whose header holds an order date
\* and an order number; without either, no row is accepted.
C16_ItemsAreThePassingRowsUnderAHeader ==
    (pc = "rows" /\ i = Len(table_data_raw)) =>
        processed_article_data =
            IF bestelldatum # <<>> /\ bestellnummer # <<>>
            THEN PassingItems(table_data_raw, i, is_dohle)
            ELSE <<>>

\* C16, reached: the loop went through three rows of a Dohle file, the first
\* and the third passing, the second ending before its quantity column, and
\* the two line items stand in the order of their rows.
C16_Witness ==
    /\ is_dohle
    /\ pc = "rows"
    /\ i = 3
    /\ RowPasses(table_data_raw, 1, TRUE)
    /\ Len(table_data_raw[2]) = 5
    /\ isdigit(table_data_raw[2][5])
    /\ RowPasses(table_data_raw, 3, TRUE)
    /\ table_data_raw[1] # table_data_raw[3]
    /\ processed_article_data = <<ItemOf(table_data_raw[1], TRUE), ItemOf(table_data_raw[3], TRUE)>>

\* The for loop of the handler has gone through every upload, and the
\* temporary directory still stands.
LoopDone == app_pc = "loop" /\ uploads_done = Len(uploaded_files)

\* The CSV files on disk that processed_csv_paths names.
RecordedCsvFiles == {f \in files : \E k \in 1..Len(processed_csv_paths) : processed_csv_paths[k] = f.path}

\* C11: after the loop over the uploads each converted document has a CSV of
\* its own in the final directory: the paths process_single_pdf returned are
\* pairwise different and name as many files as there are paths, so no
\* document overwrote the CSV of an earlier one.
C11_OneCsvPerConvertedPdf ==
    LoopDone =>
        /\ \A j, k \in 1..Len(processed_csv_paths) :
              j # k => processed_csv_paths[j] # processed_csv_paths[k]
        /\ Cardinality(RecordedCsvFiles) = Len(processed_csv_paths)

\* The paths of the CSVs of the uploads among the first n that were reported
\* converted, in submission order.
RECURSIVE SuccessPaths(_)
SuccessPaths(n) ==
    IF n = 0 THEN <<>>
    ELSE SuccessPaths(n - 1)
            \o (IF status[n][1] = "success"
                THEN <<final_csv_path_of(input_pdf_path_of(uploaded_files[n]))>>
                ELSE <<>>)

\* C12: when the loop over the uploads is over, whether some document was
\* rejected or raised or not, every upload was gone through, one report per
\* upload stands in submission order, and processed_csv_paths holds the paths
\* of the converted documents in that order.
C12_EveryUploadIsProcessed ==
    (app_pc \in {"zip", "done", "raised"} /\ uploaded_files # <<>>) =>
        /\ uploads_done = Len(uploaded_files)
        /\ Len(status) >= Len(uploaded_files)
        /\ \A k \in 1..Len(uploaded_files) : status[k][2] = uploaded_files[k].name
        /\ processed_csv_paths = SuccessPaths(Len(uploaded_files))

\* C13: when the archive is to be written the temporary directory and every
\* recorded CSV still exist; a batch that converted a document ends with the
\* archive of all recorded CSVs offered for download; and when the handler is
\* over the temporary directory and all in it are gone.
C13_ZipBeforeCleanup ==
    /\ (app_pc = "zip" /\ processed_csv_paths # <<>>) =>
          /\ temp_root_dir
          /\ \A k \in 1..Len(processed_csv_paths) : file_exists(files, processed_csv_paths[k])
    /\ (app_pc = "done" /\ processed_csv_paths # <<>>) =>
          /\ download_offered
          /\ zip_entries # None
          /\ Len(zip_entries) = Len(processed_csv_paths)
    /\ app_pc \in {"done", "raised"} =>
          /\ ~temp_root_dir
          /\ files = {}
          /\ input_pdfs = {}
====
